---- MODULE Spec2Model ----
(***************************************************************************)
(* A model of examples/cpp/multi_gpu_gpt/multi_gpu_gpt_example.cc: one     *)
(* process per MPI rank runs main() and multi_gpu_gpt_example<T>().  A     *)
(* process is a record of the locals of those two functions plus its       *)
(* position (pc); the MPI broadcasts, the NCCL joins and the world         *)
(* barriers are the only places where one process waits for another.       *)
(***************************************************************************)
EXTENDS Integers, Sequences, FiniteSets, TLC

VARIABLES cfg, proc, net

vars == <<cfg, proc, net>>

(* ------------------------------ bounds -------------------------------- *)

MaxTensorSize == 2
MaxPipelineSize == 2
MaxWorldSize == 4
MaxHeadNum == 2
MaxDecoderLayers == 2
MaxInputLen == 1
MaxRequestOutputLen == 2
MaxSeqLen == 2
\* grids of the layout-only specification SpecTopo
MaxGridTensor == 4
MaxGridPipeline == 4

(* ------------------------- inputs of one run -------------------------- *)

\* The values main() and multi_gpu_gpt_example() read: the INI file, the
\* size of MPI_COMM_WORLD and what read_start_ids() reports.
ConfigDomain ==
    [ parse_error        : BOOLEAN,
      is_half            : 0..2,
      tensor_para_size   : 1..MaxTensorSize,
      pipeline_para_size : 1..MaxPipelineSize,
      world_size         : 1..MaxWorldSize,
      head_num           : 1..MaxHeadNum,
      decoder_layers     : 1..MaxDecoderLayers,
      max_seq_len        : 1..MaxSeqLen,
      request_output_len : 1..MaxRequestOutputLen,
      max_input_len      : 0..MaxInputLen ]

SmallestLengths(c) ==
    c.max_seq_len = 1 /\ c.request_output_len = 1 /\ c.max_input_len = 0

Smallest(c) ==
    /\ c.tensor_para_size = 1 /\ c.pipeline_para_size = 1 /\ c.world_size = 1
    /\ c.head_num = 1 /\ c.decoder_layers = 1
    /\ SmallestLengths(c)

\* the run gets as far as reading the three lengths
ReadsLengths(c) ==
    /\ c.head_num % c.tensor_para_size = 0
    /\ c.decoder_layers % c.pipeline_para_size = 0
    /\ c.tensor_para_size * c.pipeline_para_size = c.world_size

\* The file that loads and selects float: every combination of the sizes,
\* and of the lengths where the run reads them (where it stops before, they
\* stay at their smallest values).  An unreadable file, half precision and
\* an invalid is_half are each run on the one-process configuration with
\* the smallest values.
Configs ==
    { c \in ConfigDomain :
        \/ /\ ~c.parse_error /\ c.is_half = 0
           /\ ReadsLengths(c) \/ SmallestLengths(c)
        \/ Smallest(c) /\ (c.parse_error => c.is_half = 0) }

Procs == 0..(cfg.world_size - 1)

(* ------------------------- values not yet set ------------------------- *)

NoUid == [by |-> -1, n |-> 0]
NoComm == [state |-> "none", uid |-> NoUid, nranks |-> 0, rank |-> -1]
NoWeights == [loaded |-> FALSE, tensor_para_rank |-> -1,
              pipeline_para_rank |-> -1]
NoGpt == [built |-> FALSE, random_seed |-> -1,
          tensor_para_size |-> 0, tensor_para_rank |-> -1,
          pipeline_para_size |-> 0, pipeline_para_rank |-> -1,
          tensor_uid |-> NoUid, pipeline_uid |-> NoUid]

InitProc(p) ==
    [ pc |-> "main", exit_at |-> "none", exit_code |-> "none",
      diag |-> "none", rank |-> p,
      tensor_para_rank |-> -1, pipeline_para_rank |-> -1,
      layers_per_group |-> -1,
      grid_comm |-> <<>>,
      comm_tensor_parallel |-> <<>>, comm_pipeline_parallel |-> <<>>,
      rank_tensor_parallel |-> -1, rank_pipeline_parallel |-> -1,
      uid_calls |-> 0, made_tensor_uid |-> NoUid, made_pipeline_uid |-> NoUid,
      tensor_para_nccl_uid |-> NoUid, pipeline_para_nccl_uid |-> NoUid,
      tensor_para_nccl_comm |-> NoComm, pipeline_para_nccl_comm |-> NoComm,
      max_input_len |-> -1,
      d_input_ids |-> "unset", d_input_lengths |-> "unset",
      total_output_len |-> -1,
      gpt_weights |-> NoWeights,
      random_seed |-> -1, gpt |-> NoGpt,
      d_output_ids |-> "unset", d_parent_ids |-> "unset",
      d_sequence_lengths |-> "unset",
      devBusy |-> FALSE, barriers |-> 0, coll |-> <<>>, fwd |-> <<>>,
      input_tensors |-> <<>>, output_tensors |-> <<>>,
      outFile |-> "none", warned |-> FALSE, hBuf |-> FALSE,
      start_time |-> FALSE, end_time |-> FALSE ]

\* What the root of each broadcast has sent: the row and column broadcasts
\* are indexed by the world rank of the communicator's rank 0.
NotSent == [sent |-> FALSE, uid |-> NoUid, seed |-> -1]

InitNet(c) ==
    [ tensor   |-> [p \in 0..(c.world_size - 1) |-> NotSent],
      pipeline |-> [p \in 0..(c.world_size - 1) |-> NotSent],
      world    |-> NotSent ]

Init ==
    /\ cfg \in Configs
    /\ proc = [p \in 0..(cfg.world_size - 1) |-> InitProc(p)]
    /\ net = InitNet(cfg)

(* ------------------------------- main --------------------------------- *)

ExitZero(p, code, msg) ==
    proc' = [proc EXCEPT ![p].pc = "exited", ![p].exit_at = proc[p].pc,
                         ![p].exit_code = "0", ![p].diag = msg]

\* exit(-1), and main's return -1
Exit(p, code, msg) ==
    proc' = [proc EXCEPT ![p].pc = "exited", ![p].exit_at = proc[p].pc,
                         ![p].exit_code = code, ![p].diag = msg]

\* main, lines 41-66: MPI_Init, load the INI file, select the precision.
Main(p) ==
    /\ proc[p].pc = "main"
    /\ IF cfg.parse_error
         THEN Exit(p, "-1", "cannot_load")
         ELSE IF cfg.is_half \in {0, 1}
                THEN proc' = [proc EXCEPT ![p].pc = "start"]
                ELSE Exit(p, "-1", "is_half")
    /\ UNCHANGED <<cfg, net>>

(* ------------------------ ProcessTopology ----------------------------- *)

\* FT_CHECK(val): on a false condition the process stops with a fatal error.
FT_CHECK(val) == IF val THEN "ok" ELSE "fatal"

HeadCheckSkipped(c) == TRUE

\* line 101: head_num % tensor_para_size == 0
HeadCheck(c) == c.head_num % c.tensor_para_size = 0

\* line 102: decoder_layers % pipeline_para_size == 0
LayerCheck(c) == c.decoder_layers % c.pipeline_para_size = 0

\* lines 74-102: read the parameters, then the two FT_CHECKs in order.
CheckShapes(p) ==
    /\ proc[p].pc = "start"
    /\ IF FT_CHECK(HeadCheck(cfg)) = "fatal"
         THEN Exit(p, "-1", "FT_CHECK_101")
         ELSE IF FT_CHECK(LayerCheck(cfg)) = "fatal"
                THEN Exit(p, "-1", "FT_CHECK_102")
                ELSE proc' = [proc EXCEPT ![p].pc = "rank"]
    /\ UNCHANGED <<cfg, net>>

WorldCheckSkipped(c) == TRUE

\* line 120: tensor_para_size * pipeline_para_size != world_size is fatal
WorldCheck(c) == c.tensor_para_size * c.pipeline_para_size = c.world_size

TensorParaRankByPipeline(rank, c) == rank % c.pipeline_para_size

\* line 125
TensorParaRank(rank, c) == rank % c.tensor_para_size

PipelineParaRankByPipeline(rank, c) == rank \div c.pipeline_para_size

\* line 126
PipelineParaRank(rank, c) == rank \div c.tensor_para_size

\* line 127
LayersPerGroup(c) == c.decoder_layers \div c.pipeline_para_size

\* lines 104-134: rank and world size, the device, the grid-size check, the
\* coordinates and the layers-per-group check.
CheckTopology(p) ==
    /\ proc[p].pc = "rank"
    /\ IF ~WorldCheck(cfg)
         THEN Exit(p, "-1", "world_size")
         ELSE IF LayersPerGroup(cfg) * cfg.pipeline_para_size
                   # cfg.decoder_layers
                THEN proc' = [proc EXCEPT
                         ![p].pc = "exited", ![p].exit_at = "rank",
                         ![p].exit_code = "-1",
                         ![p].diag = "layers_per_group",
                         ![p].tensor_para_rank = TensorParaRank(p, cfg),
                         ![p].pipeline_para_rank = PipelineParaRank(p, cfg),
                         ![p].layers_per_group = LayersPerGroup(cfg)]
                ELSE proc' = [proc EXCEPT
                         ![p].pc = "grid",
                         ![p].tensor_para_rank = TensorParaRank(p, cfg),
                         ![p].pipeline_para_rank = PipelineParaRank(p, cfg),
                         ![p].layers_per_group = LayersPerGroup(cfg)]
    /\ UNCHANGED <<cfg, net>>

(* --------------------- MPI Cartesian topology ------------------------- *)

RECURSIVE Product(_)
Product(dims) ==
    IF dims = <<>> THEN 1 ELSE Head(dims) * Product(Tail(dims))

\* MPI_Cart_coords of a rank in a row-major grid
RECURSIVE CartCoords(_, _)
CartCoords(dims, r) ==
    IF dims = <<>> THEN <<>>
    ELSE LET stride == Product(Tail(dims))
         IN  <<r \div stride>> \o CartCoords(Tail(dims), r % stride)

\* MPI_Cart_rank: the rank of a coordinate vector in a row-major grid
RECURSIVE CartRank(_, _)
CartRank(dims, coords) ==
    IF dims = <<>> THEN 0
    ELSE Head(coords) * Product(Tail(dims)) + CartRank(Tail(dims), Tail(coords))

\* the entries of s in the dimensions that remain
RECURSIVE Keep(_, _)
Keep(s, remain) ==
    IF s = <<>> THEN <<>>
    ELSE (IF Head(remain) THEN <<Head(s)>> ELSE <<>>)
         \o Keep(Tail(s), Tail(remain))

DimsSwapped(c) == <<c.tensor_para_size, c.pipeline_para_size>>

\* line 144: int dims[2] = {pipeline_para_size, tensor_para_size}
Dims(c) == <<c.pipeline_para_size, c.tensor_para_size>>

\* lines 150-151
remain_dims_tensor_parallel == <<FALSE, TRUE>>
remain_dims_pipeline_parallel == <<TRUE, FALSE>>

\* MPI_Cart_create with reorder = 0 (line 146): the grid communicator keeps
\* the ranks of MPI_COMM_WORLD; its group, listed by rank.
CartCreate(dims) == [i \in 1..Product(dims) |-> i - 1]

\* MPI_Cart_sub: the sub-grid communicator of rank r, its members listed by
\* their rank in it.  The members agree with r on every dropped dimension;
\* the rank in the sub-grid is the row-major rank of the kept coordinates.
CartSub(dims, remain, r) ==
    LET dropped == [i \in 1..Len(remain) |-> ~remain[i]]
        same(q) == Keep(CartCoords(dims, q), dropped)
                     = Keep(CartCoords(dims, r), dropped)
        members == {q \in 0..(Product(dims) - 1) : same(q)}
        subrank(q) == CartRank(Keep(dims, remain),
                               Keep(CartCoords(dims, q), remain))
    IN  [i \in 1..Cardinality(members) |->
            CHOOSE q \in members : subrank(q) = i - 1]

\* MPI_Comm_rank of world rank r in a communicator
CommRank(comm, r) ==
    IF \E i \in 1..Len(comm) : comm[i] = r
      THEN (CHOOSE i \in 1..Len(comm) : comm[i] = r) - 1
      ELSE -1

Members(comm) == {comm[i] : i \in 1..Len(comm)}

\* the locals that lines 143-159 set
Layout(p, c) ==
    LET t == CartSub(Dims(c), remain_dims_tensor_parallel, p)
        q == CartSub(Dims(c), remain_dims_pipeline_parallel, p)
    IN  [ grid_comm |-> CartCreate(Dims(c)),
          comm_tensor_parallel |-> t,
          comm_pipeline_parallel |-> q,
          rank_tensor_parallel |-> CommRank(t, p),
          rank_pipeline_parallel |-> CommRank(q, p) ]

\* lines 143-159: the grid, its rows and columns, the ranks in them.
FormGrid(p) ==
    /\ proc[p].pc = "grid"
    /\ LET l == Layout(p, cfg)
       IN  proc' = [proc EXCEPT
               ![p].pc = "uid",
               ![p].grid_comm = l.grid_comm,
               ![p].comm_tensor_parallel = l.comm_tensor_parallel,
               ![p].comm_pipeline_parallel = l.comm_pipeline_parallel,
               ![p].rank_tensor_parallel = l.rank_tensor_parallel,
               ![p].rank_pipeline_parallel = l.rank_pipeline_parallel]
    /\ UNCHANGED <<cfg, net>>

(* --------------------- CommunicatorGroupFormer ------------------------ *)

\* ncclGetUniqueId: an identifier no other call returns (the caller and the
\* number of the call on that caller).
ncclGetUniqueId(p, n) == [by |-> p, n |-> n]

\* lines 161-170: the rank 0 of a row creates the row's identifier, the
\* rank 0 of a column the column's.
IsGroupRootAlways(local_rank) == TRUE

\* lines 164 and 168: the test that selects the creator of an identifier
IsGroupRoot(local_rank) == local_rank = 0

GetUniqueIds(p) ==
    /\ proc[p].pc = "uid"
    /\ LET genT == IsGroupRoot(proc[p].rank_tensor_parallel)
           genP == IsGroupRoot(proc[p].rank_pipeline_parallel)
           nT   == IF genT THEN 1 ELSE 0
           nP   == IF genP THEN nT + 1 ELSE nT
           uidT == IF genT THEN ncclGetUniqueId(p, nT) ELSE NoUid
           uidP == IF genP THEN ncclGetUniqueId(p, nP) ELSE NoUid
       IN  proc' = [proc EXCEPT
               ![p].pc = "bcast_t",
               ![p].uid_calls = nP,
               ![p].made_tensor_uid = uidT,
               ![p].made_pipeline_uid = uidP,
               ![p].tensor_para_nccl_uid = IF genT THEN uidT ELSE @,
               ![p].pipeline_para_nccl_uid = IF genP THEN uidP ELSE @]
    /\ UNCHANGED <<cfg, net>>

\* MPI_Bcast(buffer, root = 0, comm): rank 0 of comm sends its buffer, every
\* other member leaves with the root's buffer once the root has sent it.
BcastRoot(comm) == comm[1]

\* line 172
BcastTensor(p) ==
    /\ proc[p].pc = "bcast_t"
    /\ LET root == BcastRoot(proc[p].comm_tensor_parallel)
       IN  IF root = p
             THEN /\ net' = [net EXCEPT !.tensor[p] =
                               [sent |-> TRUE,
                                uid |-> proc[p].tensor_para_nccl_uid,
                                seed |-> -1]]
                  /\ proc' = [proc EXCEPT ![p].pc = "bcast_p"]
             ELSE /\ net.tensor[root].sent
                  /\ proc' = [proc EXCEPT
                         ![p].pc = "bcast_p",
                         ![p].tensor_para_nccl_uid = net.tensor[root].uid]
                  /\ UNCHANGED net
    /\ UNCHANGED cfg

\* line 173
BcastPipeline(p) ==
    /\ proc[p].pc = "bcast_p"
    /\ LET root == BcastRoot(proc[p].comm_pipeline_parallel)
       IN  IF root = p
             THEN /\ net' = [net EXCEPT !.pipeline[p] =
                               [sent |-> TRUE,
                                uid |-> proc[p].pipeline_para_nccl_uid,
                                seed |-> -1]]
                  /\ proc' = [proc EXCEPT ![p].pc = "init_t"]
             ELSE /\ net.pipeline[root].sent
                  /\ proc' = [proc EXCEPT
                         ![p].pc = "init_t",
                         ![p].pipeline_para_nccl_uid = net.pipeline[root].uid]
                  /\ UNCHANGED net
    /\ UNCHANGED cfg

\* ncclCommInitRank(&comm, nranks, uid, rank): the call as it is entered.
ncclCommInitRank(nranks, uid, rank) ==
    [state |-> "init", uid |-> uid, nranks |-> nranks, rank |-> rank]

\* the calls of ncclCommInitRank entered so far with identifier uid
Joined(uid) ==
    {q \in Procs : /\ proc[q].tensor_para_nccl_comm.state # "none"
                   /\ proc[q].tensor_para_nccl_comm.uid = uid}
    \cup
    {q \in Procs : /\ proc[q].pipeline_para_nccl_comm.state # "none"
                   /\ proc[q].pipeline_para_nccl_comm.uid = uid}

\* ncclCommInitRank returns once nranks calls share its identifier
InitRankComplete(c) == Cardinality(Joined(c.uid)) = c.nranks

\* line 176, entering the call
InitTensorComm(p) ==
    /\ proc[p].pc = "init_t"
    /\ proc' = [proc EXCEPT
           ![p].pc = "init_t_wait",
           ![p].tensor_para_nccl_comm =
               ncclCommInitRank(cfg.tensor_para_size,
                                proc[p].tensor_para_nccl_uid,
                                proc[p].tensor_para_rank)]
    /\ UNCHANGED <<cfg, net>>

\* line 176, the call returning
InitTensorCommReturn(p) ==
    /\ proc[p].pc = "init_t_wait"
    /\ InitRankComplete(proc[p].tensor_para_nccl_comm)
    /\ proc' = [proc EXCEPT ![p].pc = "init_p",
                            ![p].tensor_para_nccl_comm.state = "ready"]
    /\ UNCHANGED <<cfg, net>>

\* lines 177-178, entering the call
InitPipelineComm(p) ==
    /\ proc[p].pc = "init_p"
    /\ proc' = [proc EXCEPT
           ![p].pc = "init_p_wait",
           ![p].pipeline_para_nccl_comm =
               ncclCommInitRank(cfg.pipeline_para_size,
                                proc[p].pipeline_para_nccl_uid,
                                proc[p].pipeline_para_rank)]
    /\ UNCHANGED <<cfg, net>>

\* lines 177-178, the call returning
InitPipelineCommReturn(p) ==
    /\ proc[p].pc = "init_p_wait"
    /\ InitRankComplete(proc[p].pipeline_para_nccl_comm)
    /\ proc' = [proc EXCEPT ![p].pc = "read",
                            ![p].pipeline_para_nccl_comm.state = "ready"]
    /\ UNCHANGED <<cfg, net>>

(* --------------------------- RequestBuffers --------------------------- *)

InputBuffersAlways(len) ==
    [d_input_ids |-> "filled", d_input_lengths |-> "filled"]

\* lines 192-206: in the unconditional case both pointers are null; else
\* both buffers are allocated and the host ids and lengths copied in.
InputBuffers(len) ==
    IF len = 0
      THEN [d_input_ids |-> "null", d_input_lengths |-> "null"]
      ELSE [d_input_ids |-> "filled", d_input_lengths |-> "filled"]

\* lines 180-206: read_start_ids reports max_input_len, then the input
\* buffers.
ReadStartIds(p) ==
    /\ proc[p].pc = "read"
    /\ LET b == InputBuffers(cfg.max_input_len)
       IN  proc' = [proc EXCEPT
               ![p].pc = "len",
               ![p].max_input_len = cfg.max_input_len,
               ![p].d_input_ids = b.d_input_ids,
               ![p].d_input_lengths = b.d_input_lengths]
    /\ UNCHANGED <<cfg, net>>

\* line 208
TotalOutputLen(max_input_len, request_output_len) ==
    max_input_len + request_output_len

\* line 209: total_output_len > (int)max_seq_len is fatal
LenCheck(total, max_seq_len) == total <= max_seq_len

\* lines 208-212
CheckOutputLen(p) ==
    /\ proc[p].pc = "len"
    /\ LET total == TotalOutputLen(proc[p].max_input_len,
                                   cfg.request_output_len)
       IN  IF LenCheck(total, cfg.max_seq_len)
             THEN proc' = [proc EXCEPT ![p].pc = "setup",
                                       ![p].total_output_len = total]
             ELSE proc' = [proc EXCEPT ![p].pc = "exited",
                                       ![p].exit_at = "len",
                                       ![p].exit_code = "-1",
                                       ![p].diag = "total_output_len",
                                       ![p].total_output_len = total]
    /\ UNCHANGED <<cfg, net>>

(* ------------------------- engine construction ------------------------ *)

\* lines 214-248: the stream and the cuBLAS handles, the weights of this
\* shard, and the seed, which only rank 0 sets.
Setup(p) ==
    /\ proc[p].pc = "setup"
    /\ proc' = [proc EXCEPT
           ![p].pc = "seed",
           ![p].gpt_weights =
               [loaded |-> TRUE,
                tensor_para_rank |-> proc[p].tensor_para_rank,
                pipeline_para_rank |-> proc[p].pipeline_para_rank],
           ![p].random_seed = IF proc[p].rank = 0 THEN 0 ELSE @]
    /\ UNCHANGED <<cfg, net>>

SeedBcastRootSkips(p) ==
    /\ proc[p].pc = "seed"
    /\ proc[p].rank # 0 => cfg.world_size > 1 /\ net.world.sent
    /\ proc' = [proc EXCEPT
           ![p].pc = "engine",
           ![p].random_seed = IF proc[p].rank = 0 THEN @ ELSE net.world.seed]
    /\ UNCHANGED <<cfg, net>>

SeedBcastNoReceive(p) ==
    /\ proc[p].pc = "seed"
    /\ proc' = [proc EXCEPT ![p].pc = "engine"]
    /\ UNCHANGED <<cfg, net>>

\* lines 249-251: with more than one process the seed is broadcast from
\* world rank 0.
SeedBcast(p) ==
    /\ proc[p].pc = "seed"
    /\ IF cfg.world_size > 1
         THEN IF proc[p].rank = 0
                THEN /\ net' = [net EXCEPT !.world =
                                  [sent |-> TRUE, uid |-> NoUid,
                                   seed |-> proc[p].random_seed]]
                     /\ proc' = [proc EXCEPT
                            ![p].pc = "engine",
                            ![p].coll = Append(@, "MPI_Bcast")]
                ELSE /\ net.world.sent
                     /\ proc' = [proc EXCEPT
                            ![p].pc = "engine",
                            ![p].coll = Append(@, "MPI_Bcast"),
                            ![p].random_seed = net.world.seed]
                     /\ UNCHANGED net
         ELSE /\ proc' = [proc EXCEPT ![p].pc = "engine"]
              /\ UNCHANGED net
    /\ UNCHANGED cfg

\* lines 252-280: the ParallelGpt object, with the seed, the coordinates and
\* the two communicators it is given.
ConstructGpt(p) ==
    /\ proc[p].pc = "engine"
    /\ proc' = [proc EXCEPT
           ![p].pc = "alloc_out",
           ![p].gpt =
               [built |-> TRUE,
                random_seed |-> proc[p].random_seed,
                tensor_para_size |-> cfg.tensor_para_size,
                tensor_para_rank |-> proc[p].tensor_para_rank,
                pipeline_para_size |-> cfg.pipeline_para_size,
                pipeline_para_rank |-> proc[p].pipeline_para_rank,
                tensor_uid |-> proc[p].tensor_para_nccl_comm.uid,
                pipeline_uid |-> proc[p].pipeline_para_nccl_comm.uid]]
    /\ UNCHANGED <<cfg, net>>

\* the data pointer a Tensor is built with
Ptr(buffer, name) == IF buffer = "null" THEN "nullptr" ELSE name

\* lines 289-295
InputTensors(pr) ==
    << [data |-> Ptr(pr.d_input_ids, "d_input_ids"),
        len |-> pr.max_input_len],
       [data |-> Ptr(pr.d_input_lengths, "d_input_lengths"), len |-> 1],
       [data |-> "total_output_len", len |-> 1] >>

\* lines 297-310
OutputTensors(pr, request_output_len) ==
    << [data |-> "d_output_ids", len |-> pr.total_output_len],
       [data |-> "d_parent_ids", len |-> pr.total_output_len],
       [data |-> "d_sequence_lengths", len |-> 1],
       [data |-> "nullptr", len |-> request_output_len] >>

\* lines 282-312: the output buffers and the tensor lists of both passes.
AllocOutput(p) ==
    /\ proc[p].pc = "alloc_out"
    /\ proc' = [proc EXCEPT
           ![p].pc = "sync1",
           ![p].d_output_ids = "allocated",
           ![p].d_parent_ids = "allocated",
           ![p].d_sequence_lengths = "allocated",
           ![p].input_tensors = InputTensors(proc[p]),
           ![p].output_tensors =
               OutputTensors(proc[p], cfg.request_output_len)]
    /\ UNCHANGED <<cfg, net>>

(* ------------------------ GenerationOrchestrator ---------------------- *)

BarrierEnterNoSync(pr, to) ==
    [pr EXCEPT !.pc = to, !.barriers = @ + 1,
               !.coll = Append(@, "MPI_Barrier")]

\* MPI_Barrier(MPI_COMM_WORLD) as it is entered: one more barrier reached.
\* cudaDeviceSynchronize before it returns only when the device is idle.
BarrierEnter(pr, to) ==
    [pr EXCEPT !.pc = to, !.barriers = @ + 1,
               !.coll = Append(@, "MPI_Barrier"), !.devBusy = FALSE]

BarrierOpenAlways(p) == TRUE

\* MPI_Barrier returns once every process of the world has entered it.
BarrierOpen(p) ==
    \A q \in Procs : proc[q].barriers >= proc[p].barriers

\* gpt.forward(&output_tensors, &input_tensors, &gpt_weights): the call, with
\* what it is given and the state of the input buffers it reads; the work
\* it starts on the device is waited for by cudaDeviceSynchronize.
Forward(pr, pass, to) ==
    [pr EXCEPT !.pc = to, !.devBusy = TRUE,
               !.fwd = Append(@, [pass |-> pass,
                                  input_tensors |-> pr.input_tensors,
                                  output_tensors |-> pr.output_tensors,
                                  d_input_ids |-> pr.d_input_ids,
                                  d_input_lengths |-> pr.d_input_lengths,
                                  d_output_ids |-> pr.d_output_ids,
                                  d_parent_ids |-> pr.d_parent_ids,
                                  d_sequence_lengths |->
                                      pr.d_sequence_lengths,
                                  total_output_len |-> pr.total_output_len,
                                  gpt_weights |-> pr.gpt_weights,
                                  random_seed |-> pr.gpt.random_seed])]

\* lines 314-316
SyncBarrier1(p) ==
    /\ proc[p].pc = "sync1"
    /\ proc' = [proc EXCEPT ![p] = BarrierEnter(@, "bar1")]
    /\ UNCHANGED <<cfg, net>>

\* line 316 returning
Barrier1Return(p) ==
    /\ proc[p].pc = "bar1"
    /\ BarrierOpen(p)
    /\ proc' = [proc EXCEPT ![p].pc = "warmup"]
    /\ UNCHANGED <<cfg, net>>

WarmupNoIteration(p) ==
    /\ proc[p].pc = "warmup"
    /\ proc' = [proc EXCEPT ![p].pc = "sync2"]
    /\ UNCHANGED <<cfg, net>>

\* lines 318-325: the warmup pass
Warmup(p) ==
    /\ proc[p].pc = "warmup"
    /\ proc' = [proc EXCEPT ![p] = Forward(@, "warmup", "sync2")]
    /\ UNCHANGED <<cfg, net>>

\* lines 326-327
SyncBarrier2(p) ==
    /\ proc[p].pc = "sync2"
    /\ proc' = [proc EXCEPT ![p] = BarrierEnter(@, "bar2")]
    /\ UNCHANGED <<cfg, net>>

\* line 327 returning
Barrier2Return(p) ==
    /\ proc[p].pc = "bar2"
    /\ BarrierOpen(p)
    /\ proc' = [proc EXCEPT ![p].pc = "collect"]
    /\ UNCHANGED <<cfg, net>>

(* ---------------------------- ResultCollector ------------------------- *)

IsCoordinatorAlways(pr) == TRUE

\* line 332: who writes the result file
IsCoordinator(pr) == pr.rank = 0

CollectFatalOnOpenFailure(p) ==
    /\ proc[p].pc = "collect"
    /\ IF IsCoordinator(proc[p])
         THEN \E opened \in BOOLEAN :
                proc' = [proc EXCEPT
                    ![p].pc = IF opened THEN "pre_timed" ELSE "exited",
                    ![p].exit_at = IF opened THEN @ ELSE "collect",
                    ![p].exit_code = IF opened THEN @ ELSE "-1",
                    ![p].outFile = IF opened THEN "written" ELSE "failed",
                    ![p].warned = ~opened,
                    ![p].hBuf = opened]
         ELSE proc' = [proc EXCEPT ![p].pc = "pre_timed"]
    /\ UNCHANGED <<cfg, net>>

\* lines 329-363: rank 0 opens "out"; if that fails it warns, else it
\* copies d_output_ids to the host and writes it.
Collect(p) ==
    /\ proc[p].pc = "collect"
    /\ IF IsCoordinator(proc[p])
         THEN \E opened \in BOOLEAN :
                proc' = [proc EXCEPT
                    ![p].pc = "pre_timed",
                    ![p].outFile = IF opened THEN "written" ELSE "failed",
                    ![p].warned = ~opened,
                    ![p].hBuf = opened]
         ELSE proc' = [proc EXCEPT ![p].pc = "pre_timed"]
    /\ UNCHANGED <<cfg, net>>

(* --------------------------- the timed pass --------------------------- *)

\* line 367
Barrier3(p) ==
    /\ proc[p].pc = "pre_timed"
    /\ proc' = [proc EXCEPT ![p].pc = "bar3", ![p].barriers = @ + 1,
                            ![p].coll = Append(@, "MPI_Barrier")]
    /\ UNCHANGED <<cfg, net>>

\* lines 367-369: the barrier returning, cudaDeviceSynchronize,
\* gettimeofday(&start)
Barrier3Return(p) ==
    /\ proc[p].pc = "bar3"
    /\ BarrierOpen(p)
    /\ proc' = [proc EXCEPT ![p].pc = "measured", ![p].devBusy = FALSE,
                            ![p].start_time = TRUE]
    /\ UNCHANGED <<cfg, net>>

MeasuredReallocates(p) ==
    /\ proc[p].pc = "measured"
    /\ proc' = [proc EXCEPT
           ![p] = Forward([@ EXCEPT !.d_output_ids = "reallocated"],
                          "measured", "sync4")]
    /\ UNCHANGED <<cfg, net>>

\* lines 371-375: the measured pass
Measured(p) ==
    /\ proc[p].pc = "measured"
    /\ proc' = [proc EXCEPT ![p] = Forward(@, "measured", "sync4")]
    /\ UNCHANGED <<cfg, net>>

\* lines 377-378
SyncBarrier4(p) ==
    /\ proc[p].pc = "sync4"
    /\ proc' = [proc EXCEPT ![p] = BarrierEnter(@, "bar4")]
    /\ UNCHANGED <<cfg, net>>

\* lines 378-395: the barrier returning, gettimeofday(&end), the report
Barrier4Return(p) ==
    /\ proc[p].pc = "bar4"
    /\ BarrierOpen(p)
    /\ proc' = [proc EXCEPT ![p].pc = "destroy", ![p].end_time = TRUE,
                            ![p].diag = "info"]
    /\ UNCHANGED <<cfg, net>>

\* lines 397-402: both communicators are destroyed
Destroy(p) ==
    /\ proc[p].pc = "destroy"
    /\ proc' = [proc EXCEPT
           ![p].pc = "finalize",
           ![p].tensor_para_nccl_comm.state = "destroyed",
           ![p].pipeline_para_nccl_comm.state = "destroyed"]
    /\ UNCHANGED <<cfg, net>>

\* main, lines 67-68: MPI_Finalize, return 0
Finalize(p) ==
    /\ proc[p].pc = "finalize"
    /\ proc' = [proc EXCEPT ![p].pc = "exited", ![p].exit_at = "done",
                            ![p].exit_code = "0"]
    /\ UNCHANGED <<cfg, net>>

(* --------------------------- specification ---------------------------- *)

Next ==
    \/ \E p \in Procs : Main(p)
    \/ \E p \in Procs : CheckShapes(p)
    \/ \E p \in Procs : CheckTopology(p)
    \/ \E p \in Procs : FormGrid(p)
    \/ \E p \in Procs : GetUniqueIds(p)
    \/ \E p \in Procs : BcastTensor(p)
    \/ \E p \in Procs : BcastPipeline(p)
    \/ \E p \in Procs : InitTensorComm(p)
    \/ \E p \in Procs : InitTensorCommReturn(p)
    \/ \E p \in Procs : InitPipelineComm(p)
    \/ \E p \in Procs : InitPipelineCommReturn(p)
    \/ \E p \in Procs : ReadStartIds(p)
    \/ \E p \in Procs : CheckOutputLen(p)
    \/ \E p \in Procs : Setup(p)
    \/ \E p \in Procs : SeedBcast(p)
    \/ \E p \in Procs : ConstructGpt(p)
    \/ \E p \in Procs : AllocOutput(p)
    \/ \E p \in Procs : SyncBarrier1(p)
    \/ \E p \in Procs : Barrier1Return(p)
    \/ \E p \in Procs : Warmup(p)
    \/ \E p \in Procs : SyncBarrier2(p)
    \/ \E p \in Procs : Barrier2Return(p)
    \/ \E p \in Procs : Collect(p)
    \/ \E p \in Procs : Barrier3(p)
    \/ \E p \in Procs : Barrier3Return(p)
    \/ \E p \in Procs : Measured(p)
    \/ \E p \in Procs : SyncBarrier4(p)
    \/ \E p \in Procs : Barrier4Return(p)
    \/ \E p \in Procs : Destroy(p)
    \/ \E p \in Procs : Finalize(p)

Spec == Init /\ [][Next]_vars

(* ------------- the layout alone, on every grid up to 4 x 4 ------------ *)

\* A valid grid whose shape checks pass; the remaining inputs do not reach
\* the steps this specification takes.
TopoConfigs ==
    { [ parse_error |-> FALSE, is_half |-> 0,
        tensor_para_size |-> t, pipeline_para_size |-> k,
        world_size |-> t * k, head_num |-> t, decoder_layers |-> k,
        max_seq_len |-> 1, request_output_len |-> 1, max_input_len |-> 0 ] :
      t \in 1..MaxGridTensor, k \in 1..MaxGridPipeline }

TopoInit ==
    /\ cfg \in TopoConfigs
    /\ proc = [p \in 0..(cfg.world_size - 1) |-> InitProc(p)]
    /\ net = InitNet(cfg)

\* The steps up to the grid touch only the process's own locals, so their
\* order across processes does not matter: the processes run them one
\* after the other, by rank.
InOrder(p) == \A q \in Procs : q < p => proc[q].pc = "uid"

TopoNext ==
    \/ \E p \in Procs : InOrder(p) /\ Main(p)
    \/ \E p \in Procs : InOrder(p) /\ CheckShapes(p)
    \/ \E p \in Procs : InOrder(p) /\ CheckTopology(p)
    \/ \E p \in Procs : InOrder(p) /\ FormGrid(p)

SpecTopo == TopoInit /\ [][TopoNext]_vars

(* --------------------------- fair scheduling -------------------------- *)

\* one of the failures of configuration loading and validation
Failing(c) ==
    \/ c.parse_error
    \/ c.is_half \notin {0, 1}
    \/ c.tensor_para_size * c.pipeline_para_size # c.world_size
    \/ c.head_num % c.tensor_para_size # 0
    \/ c.decoder_layers % c.pipeline_para_size # 0
    \/ c.max_input_len + c.request_output_len > c.max_seq_len

\* The valid configurations, on every grid.  The shapes and the lengths
\* play no part in which process waits for which: each grid is run with
\* one head per tensor rank and one layer per pipeline rank, and the
\* lengths are taken as the shortest unconditional request and as the
\* longest conditional one.
FairConfigs ==
    { c \in Configs :
        /\ ~Failing(c) /\ c.is_half = 0
        /\ c.head_num = c.tensor_para_size
        /\ c.decoder_layers = c.pipeline_para_size
        /\ c.request_output_len = 1
        /\ c.max_input_len \in {0, MaxInputLen}
        /\ c.max_seq_len = c.max_input_len + 1 }

FairInit ==
    /\ cfg \in FairConfigs
    /\ proc = [p \in 0..(cfg.world_size - 1) |-> InitProc(p)]
    /\ net = InitNet(cfg)

\* Every process runs on its own: a step that some process can take is
\* eventually taken.
SpecFair == FairInit /\ [][Next]_vars /\ WF_vars(Next)

(* ----------------------- positions in the program --------------------- *)

ProgramOrder ==
    << "main", "start", "rank", "grid", "uid", "bcast_t", "bcast_p",
       "init_t", "init_t_wait", "init_p", "init_p_wait", "read", "len",
       "setup", "seed", "engine", "alloc_out", "sync1", "bar1", "warmup",
       "sync2", "bar2", "collect", "pre_timed", "bar3", "measured", "sync4",
       "bar4", "destroy", "finalize", "done" >>

Index(label) == CHOOSE i \in 1..Len(ProgramOrder) : ProgramOrder[i] = label

\* the step the process is at, or the step in which it exited
Pos(pr) == Index(IF pr.pc = "exited" THEN pr.exit_at ELSE pr.pc)

\* the process has completed the step `label` and gone on
After(pr, label) == Pos(pr) > Index(label)

(* ------- communicator formation, on every grid up to 4 x 4 ----------- *)

\* The processes advance together, one statement at a time and by rank
\* within a statement: the root of a broadcast is the lowest rank of its
\* group and a join returns once the whole group has entered it, so no
\* process waits in this order.
Lockstep(p) ==
    \A q \in Procs :
        /\ q < p => Pos(proc[q]) > Pos(proc[p])
        /\ q > p => Pos(proc[q]) >= Pos(proc[p])

FormNext ==
    \/ \E p \in Procs : Lockstep(p) /\ Main(p)
    \/ \E p \in Procs : Lockstep(p) /\ CheckShapes(p)
    \/ \E p \in Procs : Lockstep(p) /\ CheckTopology(p)
    \/ \E p \in Procs : Lockstep(p) /\ FormGrid(p)
    \/ \E p \in Procs : Lockstep(p) /\ GetUniqueIds(p)
    \/ \E p \in Procs : Lockstep(p) /\ BcastTensor(p)
    \/ \E p \in Procs : Lockstep(p) /\ BcastPipeline(p)
    \/ \E p \in Procs : Lockstep(p) /\ InitTensorComm(p)
    \/ \E p \in Procs : Lockstep(p) /\ InitTensorCommReturn(p)
    \/ \E p \in Procs : Lockstep(p) /\ InitPipelineComm(p)
    \/ \E p \in Procs : Lockstep(p) /\ InitPipelineCommReturn(p)

SpecForm == TopoInit /\ [][FormNext]_vars

(* ------------------------------ claims -------------------------------- *)

\* the grid is valid and process pr has its row and column communicators
HasComms(pr) == pr.comm_tensor_parallel # <<>>

\* C1: on a valid grid, q is in the tensor-parallel communicator of p iff
\* p / tensor_size = q / tensor_size, and in the pipeline-parallel
\* communicator of p iff p % tensor_size = q % tensor_size; two processes
\* hold the same communicator exactly in those cases.
C1_GroupMembership ==
    \A p, q \in Procs :
        HasComms(proc[p]) =>
            LET sameRow == (p \div cfg.tensor_para_size)
                             = (q \div cfg.tensor_para_size)
                sameCol == (p % cfg.tensor_para_size)
                             = (q % cfg.tensor_para_size)
            IN  /\ cfg.tensor_para_size * cfg.pipeline_para_size
                     = cfg.world_size
                /\ (q \in Members(proc[p].comm_tensor_parallel)) <=> sameRow
                /\ (q \in Members(proc[p].comm_pipeline_parallel)) <=> sameCol
                /\ HasComms(proc[q]) =>
                     /\ (proc[p].comm_tensor_parallel
                           = proc[q].comm_tensor_parallel) <=> sameRow
                     /\ (proc[p].comm_pipeline_parallel
                           = proc[q].comm_pipeline_parallel) <=> sameCol

\* a 2 x 3 grid (3 per row) with every process laid out: rank 4 shares its
\* row with 3 and 5 and its column with 1
C1_Witness ==
    /\ cfg.tensor_para_size = 3 /\ cfg.pipeline_para_size = 2
    /\ \A p \in Procs : HasComms(proc[p])
    /\ Members(proc[4].comm_tensor_parallel) = {3, 4, 5}
    /\ Members(proc[4].comm_pipeline_parallel) = {1, 4}

\* process pr has computed its coordinates (lines 125-126)
HasCoords(pr) == pr.tensor_para_rank # -1

Coords(pr) == <<pr.tensor_para_rank, pr.pipeline_para_rank>>

\* C3: on a valid grid rank -> (rank % tensor_size, rank / tensor_size) is
\* one-to-one and onto {0..tensor_size-1} x {0..pipeline_size-1}; on the
\* 2 x 2 grid rank 2 gets (0, 1).
C3_CoordinatesBijective ==
    /\ \A p \in Procs :
          HasCoords(proc[p]) =>
            /\ cfg.tensor_para_size * cfg.pipeline_para_size = cfg.world_size
            /\ proc[p].tensor_para_rank \in 0..(cfg.tensor_para_size - 1)
            /\ proc[p].pipeline_para_rank \in 0..(cfg.pipeline_para_size - 1)
    /\ \A p, q \in Procs :
          (HasCoords(proc[p]) /\ HasCoords(proc[q]) /\ p # q)
            => Coords(proc[p]) # Coords(proc[q])
    /\ (\A p \in Procs : HasCoords(proc[p]))
          => {Coords(proc[p]) : p \in Procs}
               = (0..(cfg.tensor_para_size - 1))
                   \X (0..(cfg.pipeline_para_size - 1))
    /\ \A p \in Procs :
          (HasCoords(proc[p]) /\ p = 2 /\ cfg.tensor_para_size = 2
             /\ cfg.pipeline_para_size = 2)
            => Coords(proc[p]) = <<0, 1>>

\* the 2 x 2 grid with every rank's coordinates computed
C3_Witness ==
    /\ cfg.tensor_para_size = 2 /\ cfg.pipeline_para_size = 2
    /\ cfg.world_size = 4
    /\ \A p \in Procs : HasCoords(proc[p])
    /\ Coords(proc[2]) = <<0, 1>>

\* C2: in each row and each column exactly one member, the one with local
\* rank 0, creates a fresh identifier; after the broadcast every member holds
\* the identifier its group's root created; every process joins its row and
\* its column with that identifier, the size of the group and its rank in
\* it; no two distinct groups are joined with the same identifier.
C2_IdentifierProtocol ==
    /\ \A p \in Procs :
          LET pr == proc[p]
              T  == pr.comm_tensor_parallel
              P  == pr.comm_pipeline_parallel
          IN  /\ After(pr, "uid") =>
                   /\ (pr.made_tensor_uid # NoUid)
                        <=> (pr.rank_tensor_parallel = 0)
                   /\ (pr.made_pipeline_uid # NoUid)
                        <=> (pr.rank_pipeline_parallel = 0)
                   /\ (\A q \in Members(T) : After(proc[q], "uid"))
                        => Cardinality({q \in Members(T) :
                               proc[q].made_tensor_uid # NoUid}) = 1
                   /\ (\A q \in Members(P) : After(proc[q], "uid"))
                        => Cardinality({q \in Members(P) :
                               proc[q].made_pipeline_uid # NoUid}) = 1
              /\ After(pr, "bcast_t") =>
                   /\ pr.tensor_para_nccl_uid # NoUid
                   /\ pr.tensor_para_nccl_uid = proc[T[1]].made_tensor_uid
              /\ After(pr, "bcast_p") =>
                   /\ pr.pipeline_para_nccl_uid # NoUid
                   /\ pr.pipeline_para_nccl_uid = proc[P[1]].made_pipeline_uid
              /\ After(pr, "init_t") =>
                   /\ pr.tensor_para_nccl_comm.state # "none"
                   /\ pr.tensor_para_nccl_comm.uid
                        = proc[T[1]].made_tensor_uid
                   /\ pr.tensor_para_nccl_comm.nranks = Len(T)
                   /\ pr.tensor_para_nccl_comm.rank = CommRank(T, p)
              /\ After(pr, "init_p") =>
                   /\ pr.pipeline_para_nccl_comm.state # "none"
                   /\ pr.pipeline_para_nccl_comm.uid
                        = proc[P[1]].made_pipeline_uid
                   /\ pr.pipeline_para_nccl_comm.nranks = Len(P)
                   /\ pr.pipeline_para_nccl_comm.rank = CommRank(P, p)
    /\ \A p, q \in Procs :
          LET tp == proc[p].tensor_para_nccl_comm
              tq == proc[q].tensor_para_nccl_comm
              pp == proc[p].pipeline_para_nccl_comm
              pq == proc[q].pipeline_para_nccl_comm
          IN  /\ (tp.state # "none" /\ tq.state # "none" /\ tp.uid = tq.uid)
                   => proc[p].comm_tensor_parallel
                        = proc[q].comm_tensor_parallel
              /\ (pp.state # "none" /\ pq.state # "none" /\ pp.uid = pq.uid)
                   => proc[p].comm_pipeline_parallel
                        = proc[q].comm_pipeline_parallel
              /\ (tp.state # "none" /\ pq.state # "none")
                   => tp.uid # pq.uid

\* the 2 x 2 grid with all four processes joined to both communicators;
\* rank 3 holds the identifiers ranks 2 and 1 created
C2_Witness ==
    /\ cfg.tensor_para_size = 2 /\ cfg.pipeline_para_size = 2
    /\ \A p \in Procs :
          /\ proc[p].tensor_para_nccl_comm.state = "ready"
          /\ proc[p].pipeline_para_nccl_comm.state = "ready"
    /\ proc[3].tensor_para_nccl_comm.uid.by = 2
    /\ proc[3].pipeline_para_nccl_comm.uid.by = 1

\* C4: no process starts its warmup forward call before every process has
\* finished setup and entered the first barrier; none starts its measured
\* forward call before every process has finished its warmup call and
\* waited for its device; none leaves the barrier that ends the measured
\* region, or takes its end timestamp, before every process has finished
\* its measured call and waited for its device; a barrier and a device wait
\* stand directly before and directly after the measured region.
C4_BarrierOrder ==
    \A p, q \in Procs :
        /\ Len(proc[p].fwd) >= 1 =>
              /\ After(proc[q], "sync1")
              /\ proc[q].d_output_ids = "allocated"
              /\ proc[q].barriers >= 1
        /\ Len(proc[p].fwd) >= 2 =>
              /\ Len(proc[q].fwd) >= 1
              /\ After(proc[q], "sync2")
              /\ proc[q].barriers >= 3
              /\ Len(proc[q].fwd) = 1 => ~proc[q].devBusy
        /\ (After(proc[p], "bar4") \/ proc[p].end_time) =>
              /\ Len(proc[q].fwd) = 2
              /\ After(proc[q], "sync4")
              /\ proc[q].barriers = 4
              /\ ~proc[q].devBusy
        /\ proc[p].pc = "measured" =>
              proc[p].barriers = 3 /\ ~proc[p].devBusy

\* four processes, one past the last barrier with its end timestamp taken
\* while another is still inside that barrier
C4_Witness ==
    /\ cfg.world_size = 4
    /\ \E p, q \in Procs :
          /\ proc[p].end_time /\ proc[p].pc = "destroy"
          /\ proc[q].pc = "bar4"

\* 0 Uninitialized, 1 BuffersReady, 2 WarmedUp, 3 Measured, 4 Reported
PhaseNum(pr) ==
    CASE pr.diag = "info" -> 4
      [] pr.diag # "info" /\ Len(pr.fwd) = 2 /\ pr.barriers >= 4 -> 3
      [] pr.diag # "info" /\ ~(Len(pr.fwd) = 2 /\ pr.barriers >= 4)
           /\ Len(pr.fwd) >= 1 /\ pr.barriers >= 2 -> 2
      [] pr.diag # "info" /\ ~(Len(pr.fwd) = 2 /\ pr.barriers >= 4)
           /\ ~(Len(pr.fwd) >= 1 /\ pr.barriers >= 2)
           /\ pr.d_output_ids = "allocated" -> 1
      [] OTHER -> 0

PhaseStep(p) == PhaseNum(proc'[p]) \in {PhaseNum(proc[p]), PhaseNum(proc[p]) + 1}

Collects(p) ==
    proc'[p].outFile # proc[p].outFile \/ proc'[p].hBuf # proc[p].hBuf

\* C5 as stated: the phases advance one at a time in the order
\* Uninitialized, BuffersReady, WarmedUp, Measured, Reported, and the
\* coordinator opens the result file and copies the output ids only after
\* the measured pass has completed.
C5_CollectAfterMeasured ==
    [][\A p \in Procs :
          /\ PhaseStep(p)
          /\ Collects(p) => PhaseNum(proc[p]) >= 3]_vars

\* C5 as amended: the phases advance one at a time in that order, and the
\* coordinator opens the result file and copies the output ids in phase
\* WarmedUp: after its warmup pass and device wait, before its measured
\* forward call.
C5_CollectAfterWarmup ==
    [][\A p \in Procs :
          /\ PhaseStep(p)
          /\ Collects(p) =>
                /\ PhaseNum(proc[p]) = 2
                /\ Len(proc[p].fwd) = 1
                /\ proc[p].fwd[1].pass = "warmup"
                /\ ~proc[p].devBusy]_vars

\* the coordinator has written the file and gone on to phase Reported
C5_Witness ==
    \E p \in Procs :
        /\ proc[p].outFile = "written" /\ proc[p].hBuf
        /\ PhaseNum(proc[p]) = 4

\* nothing of communicator formation has happened on process pr
NoFormation(pr) ==
    /\ pr.grid_comm = <<>>
    /\ pr.comm_tensor_parallel = <<>> /\ pr.comm_pipeline_parallel = <<>>
    /\ pr.uid_calls = 0
    /\ pr.tensor_para_nccl_uid = NoUid /\ pr.pipeline_para_nccl_uid = NoUid
    /\ pr.tensor_para_nccl_comm = NoComm
    /\ pr.pipeline_para_nccl_comm = NoComm

NothingSent ==
    /\ \A p \in Procs : ~net.tensor[p].sent /\ ~net.pipeline[p].sent
    /\ ~net.world.sent

\* C6: if tensor_para_size * pipeline_para_size # world_size, no process
\* gets past the grid-size check: each is before it or has exited with a
\* non-zero code, and no grid, identifier, broadcast or join exists.
C6_GridMismatchFatal ==
    cfg.tensor_para_size * cfg.pipeline_para_size # cfg.world_size =>
        /\ NothingSent
        /\ \A p \in Procs :
              /\ NoFormation(proc[p])
              /\ proc[p].pc \in {"main", "start", "rank", "exited"}
              /\ proc[p].pc = "exited" => proc[p].exit_code = "-1"

\* three processes on a 2 x 2 configuration whose shape checks pass: all
\* have exited at the grid-size check
C6_Witness ==
    /\ cfg.tensor_para_size = 2 /\ cfg.pipeline_para_size = 2
    /\ cfg.world_size = 3
    /\ \A p \in Procs :
          /\ proc[p].pc = "exited" /\ proc[p].exit_code = "-1"
          /\ proc[p].diag = "world_size"

\* C7: if head_num % tensor_size # 0, no process gets past the first
\* check: each is before it or has exited with a non-zero code, and no
\* grid, identifier, broadcast or join exists.
C7_HeadMismatchFatal ==
    cfg.head_num % cfg.tensor_para_size # 0 =>
        /\ NothingSent
        /\ \A p \in Procs :
              /\ NoFormation(proc[p])
              /\ proc[p].pc \in {"main", "start", "exited"}
              /\ proc[p].pc = "exited" => proc[p].exit_code = "-1"

\* head_num = 1 on tensor_size = 2 with an otherwise valid 2 x 2 grid: all
\* four processes have exited at the check of line 101
C7_Witness ==
    /\ cfg.head_num = 1 /\ cfg.tensor_para_size = 2
    /\ cfg.pipeline_para_size = 2 /\ cfg.world_size = 4
    /\ cfg.decoder_layers = 2
    /\ \A p \in Procs :
          /\ proc[p].pc = "exited" /\ proc[p].exit_code = "-1"
          /\ proc[p].diag = "FT_CHECK_101"

\* C8: if decoder_layers % pipeline_size # 0, a process that has stopped
\* has stopped with the layers-per-group diagnostic of lines 129-132.
\* Stated for the runs in which nothing else is wrong (head_num divides,
\* the grid fits the world), so that no other failure competes with it.
C8_LayersMismatchReported ==
    (/\ cfg.decoder_layers % cfg.pipeline_para_size # 0
     /\ cfg.head_num % cfg.tensor_para_size = 0
     /\ cfg.tensor_para_size * cfg.pipeline_para_size = cfg.world_size) =>
        \A p \in Procs :
            proc[p].pc = "exited" =>
                /\ proc[p].exit_code = "-1"
                /\ proc[p].diag = "layers_per_group"

\* C9: total_output_len is max_input_len + request_output_len; a process
\* that stops because it exceeds max_seq_len has allocated no input and no
\* output buffer and has made no forward call; a process whose
\* total_output_len is within max_seq_len does not stop there and
\* allocates its buffers.
C9_LenCheckBeforeAllocation ==
    \A p \in Procs :
        LET pr == proc[p]
        IN  /\ pr.total_output_len # -1 =>
                 pr.total_output_len
                   = pr.max_input_len + cfg.request_output_len
            /\ (pr.total_output_len # -1
                  /\ pr.total_output_len > cfg.max_seq_len) =>
                 /\ pr.pc = "exited" /\ pr.exit_code = "-1"
                 /\ pr.d_input_ids \in {"unset", "null"}
                 /\ pr.d_input_lengths \in {"unset", "null"}
                 /\ pr.d_output_ids = "unset"
                 /\ pr.fwd = <<>>
            /\ (pr.total_output_len # -1
                  /\ pr.total_output_len <= cfg.max_seq_len) =>
                 /\ pr.diag # "total_output_len"
                 /\ After(pr, "alloc_out") => pr.d_output_ids = "allocated"

\* C10: with max_input_len = 0 the input buffers are never allocated or
\* copied to and every forward call gets null input ids and lengths; with
\* max_input_len > 0 both buffers are allocated and filled from the host
\* before the first forward call.
C10_InputBuffers ==
    \A p \in Procs :
        LET pr == proc[p]
        IN  /\ cfg.max_input_len = 0 =>
                 /\ pr.d_input_ids \in {"unset", "null"}
                 /\ pr.d_input_lengths \in {"unset", "null"}
                 /\ \A i \in 1..Len(pr.fwd) :
                       /\ pr.fwd[i].input_tensors[1].data = "nullptr"
                       /\ pr.fwd[i].input_tensors[2].data = "nullptr"
                       /\ pr.fwd[i].d_input_ids = "null"
                       /\ pr.fwd[i].d_input_lengths = "null"
            /\ cfg.max_input_len > 0 =>
                 /\ After(pr, "read") =>
                       /\ pr.d_input_ids = "filled"
                       /\ pr.d_input_lengths = "filled"
                 /\ \A i \in 1..Len(pr.fwd) :
                       /\ pr.fwd[i].input_tensors[1].data = "d_input_ids"
                       /\ pr.fwd[i].input_tensors[2].data = "d_input_lengths"
                       /\ pr.fwd[i].d_input_ids = "filled"
                       /\ pr.fwd[i].d_input_lengths = "filled"

\* an unconditional run in which a process has made both forward calls
C10_Witness ==
    /\ cfg.max_input_len = 0
    /\ \E p \in Procs :
          /\ Len(proc[p].fwd) = 2
          /\ proc[p].fwd[2].pass = "measured"
          /\ proc[p].fwd[1].input_tensors[1].data = "nullptr"

\* C11: a process that has constructed the engine gave it the seed that
\* rank 0 generated: rank 0 has generated it by then, every engine holds
\* that value, and a process other than rank 0 holds it as the value the
\* world broadcast carried.
C11_SeedShared ==
    \A p \in Procs :
        proc[p].gpt.built =>
            /\ After(proc[0], "setup")
            /\ proc[0].random_seed # -1
            /\ proc[p].gpt.random_seed = proc[0].random_seed
            /\ p # 0 => /\ net.world.sent
                        /\ net.world.seed = proc[p].gpt.random_seed
            /\ \A q \in Procs :
                   proc[q].gpt.built =>
                       proc[q].gpt.random_seed = proc[p].gpt.random_seed

\* four processes, each with its engine constructed, the last of them with
\* the seed it received
C11_Witness ==
    /\ cfg.world_size = 4
    /\ \A p \in Procs : proc[p].gpt.built
    /\ proc[3].gpt.random_seed = net.world.seed

\* C12: a process other than rank 0 never opens or writes the result file
\* and never copies the output ids to the host; rank 0, once past that
\* step, has opened the file (and written it if the open succeeded).
C12_CollectOnlyCoordinator ==
    \A p \in Procs :
        /\ p # 0 => /\ proc[p].outFile = "none"
                    /\ ~proc[p].hBuf
                    /\ ~proc[p].warned
        /\ (p = 0 /\ After(proc[p], "collect")) =>
                /\ proc[p].outFile \in {"written", "failed"}
                /\ proc[p].hBuf <=> proc[p].outFile = "written"

\* rank 0 has written the file, and another process has passed the same
\* place of the program without touching it
C12_Witness ==
    /\ proc[0].outFile = "written" /\ proc[0].hBuf
    /\ \E p \in Procs : p # 0 /\ After(proc[p], "collect")

\* C13: a process other than rank 0 records neither the start nor the end
\* timestamp and does not report the latency.
C13_TimingOnlyCoordinator ==
    \A p \in Procs :
        p # 0 => /\ ~proc[p].start_time
                 /\ ~proc[p].end_time
                 /\ proc[p].diag # "info"

\* the run has passed communicator formation on process pr
Formed(pr) ==
    /\ pr.tensor_para_nccl_comm.state # "none"
    /\ pr.pipeline_para_nccl_comm.state # "none"

\* C15: a process that has exited after joining its communicators, on the
\* normal path or at the total_output_len check, has destroyed both.
C15_CommsDestroyedOnExit ==
    \A p \in Procs :
        (proc[p].pc = "exited" /\ Formed(proc[p])) =>
            /\ proc[p].tensor_para_nccl_comm.state = "destroyed"
            /\ proc[p].pipeline_para_nccl_comm.state = "destroyed"

\* C16: a process that has exited has exited with -1 if the configuration
\* fails to load or to validate, and with 0 otherwise; it exits with 0
\* exactly when it has returned from main after both passes.
C16_ExitCodes ==
    \A p \in Procs :
        proc[p].pc = "exited" =>
            /\ proc[p].exit_code \in {"0", "-1"}
            /\ Failing(cfg) => proc[p].exit_code = "-1"
            /\ ~Failing(cfg) => proc[p].exit_code = "0"
            /\ proc[p].exit_code = "0" <=>
                  /\ proc[p].exit_at = "done"
                  /\ Len(proc[p].fwd) = 2
                  /\ proc[p].fwd[1].pass = "warmup"
                  /\ proc[p].fwd[2].pass = "measured"

\* one process has returned 0 from main after both passes while the other
\* has not yet returned; in another run both stop with -1 at the length
\* check, which is the last of the validations
C16_Witness ==
    /\ cfg.world_size = 2
    /\ \/ /\ proc[0].pc = "exited" /\ proc[0].exit_code = "0"
          /\ proc[1].pc = "finalize"
       \/ /\ proc[0].pc = "exited" /\ proc[0].exit_code = "-1"
          /\ proc[0].exit_at = "len"
          /\ proc[1].pc = "exited"

\* the world-scope collectives a process issues in a complete run
WorldCollectives(c) ==
    (IF c.world_size > 1 THEN <<"MPI_Bcast">> ELSE <<>>)
    \o <<"MPI_Barrier", "MPI_Barrier", "MPI_Barrier", "MPI_Barrier">>

IsPrefix(s, t) ==
    /\ Len(s) <= Len(t)
    /\ \A i \in 1..Len(s) : s[i] = t[i]

\* every process has returned 0 from main
AllDone ==
    \A p \in Procs :
        /\ proc[p].pc = "exited" /\ proc[p].exit_at = "done"
        /\ proc[p].exit_code = "0"

\* what a process has issued so far is the beginning of the one sequence,
\* all of it once the process is past the last barrier, whatever its rank
\* and whether or not the result file opened; the group-scoped steps come
\* in program order, each completed before the next is entered.
CollectivesMatch ==
    \A p \in Procs :
        LET pr == proc[p]
        IN  /\ IsPrefix(pr.coll, WorldCollectives(cfg))
            /\ After(pr, "bar4") => pr.coll = WorldCollectives(cfg)
            /\ After(pr, "sync4") => pr.barriers = 4
            /\ After(pr, "bcast_p") => After(pr, "bcast_t")
            /\ pr.tensor_para_nccl_comm.state # "none" =>
                   /\ pr.tensor_para_nccl_uid # NoUid
                   /\ pr.pipeline_para_nccl_uid # NoUid
            /\ pr.pipeline_para_nccl_comm.state # "none" =>
                   pr.tensor_para_nccl_comm.state = "ready"
                     \/ pr.tensor_para_nccl_comm.state = "destroyed"

\* C19: every process issues the same world-scope collectives (the seed
\* broadcast iff world_size > 1, then four barriers) and the group-scoped
\* steps in the same order, and with a valid configuration every process
\* eventually returns from main with all of them issued.
C19_Terminates ==
    /\ []CollectivesMatch
    /\ ~Failing(cfg) => <>(AllDone /\ \A p \in Procs :
                                         proc[p].coll = WorldCollectives(cfg))

\* four processes, all returned, after a run in which the result file did
\* not open
C19_Witness ==
    /\ cfg.world_size = 4
    /\ AllDone
    /\ proc[0].outFile = "failed"
    /\ \A p \in Procs : Len(proc[p].coll) = 5

\* C14: after a failed open of the result file rank 0 has warned and has
\* written and copied nothing; it does not stop there, it goes through the
\* two remaining barriers and the measured pass like every other process,
\* and every process eventually returns 0 from main, as in a run in which
\* the file opened.
C14_OpenFailureNotFatal ==
    /\ [](proc[0].outFile = "failed" =>
             /\ proc[0].warned /\ ~proc[0].hBuf
             /\ \A p \in Procs :
                    /\ proc[p].pc = "exited" =>
                           /\ proc[p].exit_at = "done"
                           /\ proc[p].exit_code = "0"
                    /\ After(proc[p], "finalize") =>
                           /\ Len(proc[p].fwd) = 2
                           /\ proc[p].fwd[2].pass = "measured"
                           /\ proc[p].coll = WorldCollectives(cfg))
    /\ [](proc[0].outFile = "failed" => <>AllDone)

\* two processes, both returned, after a run in which the open failed
C14_Witness ==
    /\ cfg.world_size = 2
    /\ proc[0].outFile = "failed" /\ proc[0].warned
    /\ AllDone
    /\ \A p \in Procs : Len(proc[p].fwd) = 2

\* the device buffers of a process, what the tensors point to, and the
\* objects both forward calls are given
Buffers(pr) ==
    [ d_input_ids |-> pr.d_input_ids,
      d_input_lengths |-> pr.d_input_lengths,
      d_output_ids |-> pr.d_output_ids,
      d_parent_ids |-> pr.d_parent_ids,
      d_sequence_lengths |-> pr.d_sequence_lengths,
      total_output_len |-> pr.total_output_len,
      input_tensors |-> pr.input_tensors,
      output_tensors |-> pr.output_tensors,
      gpt_weights |-> pr.gpt_weights,
      gpt |-> pr.gpt ]

\* what a forward call was given
Given(call) == [call EXCEPT !.pass = "any"]

\* C17: a buffer, once allocated (or set to null), is never allocated
\* again, freed or replaced; from the warmup call on no step of the
\* process changes any buffer, total_output_len, the tensor lists, the
\* weights or the engine (the result collection included); and the
\* measured call is given exactly what the warmup call was given.
C17_BuffersReused ==
    [][\A p \in Procs :
          LET a == proc[p]
              b == proc'[p]
          IN  /\ a.d_input_ids # "unset" =>
                    /\ b.d_input_ids = a.d_input_ids
                    /\ b.d_input_lengths = a.d_input_lengths
              /\ a.d_output_ids # "unset" =>
                    /\ b.d_output_ids = a.d_output_ids
                    /\ b.d_parent_ids = a.d_parent_ids
                    /\ b.d_sequence_lengths = a.d_sequence_lengths
              /\ Len(a.fwd) >= 1 => Buffers(b) = Buffers(a)
              /\ Len(b.fwd) = 2 =>
                    /\ Given(b.fwd[1]) = Given(b.fwd[2])
                    /\ b.fwd[2].input_tensors = b.input_tensors
                    /\ b.fwd[2].output_tensors = b.output_tensors
                    /\ b.fwd[2].d_output_ids = "allocated"]_vars

\* rank 0 has made both calls of a conditional request and has written
\* the result file between them
C17_Witness ==
    /\ cfg.max_input_len > 0
    /\ Len(proc[0].fwd) = 2
    /\ proc[0].fwd[1].pass = "warmup" /\ proc[0].fwd[2].pass = "measured"
    /\ proc[0].outFile = "written"
    /\ proc[0].d_input_ids = "filled"

\* the ranks with which the members of a communicator have joined it
JoinRanks(comm, field) == {proc[q][field].rank : q \in Members(comm)}

\* C18: the rank of a process in its row is rank % tensor_size and in its
\* column rank / tensor_size, the values it joins with; the creator of a
\* group's identifier is the member that joins as rank 0; a row has
\* tensor_size members and a column pipeline_size, and once all of them
\* have joined, their join ranks are exactly 0..size-1, each used once.
C18_LocalRanks ==
    \A p \in Procs :
        LET pr == proc[p]
            T  == pr.comm_tensor_parallel
            P  == pr.comm_pipeline_parallel
        IN  HasComms(pr) =>
              /\ pr.rank_tensor_parallel = p % cfg.tensor_para_size
              /\ pr.rank_pipeline_parallel = p \div cfg.tensor_para_size
              /\ pr.rank_tensor_parallel = pr.tensor_para_rank
              /\ pr.rank_pipeline_parallel = pr.pipeline_para_rank
              /\ Len(T) = cfg.tensor_para_size
              /\ Cardinality(Members(T)) = cfg.tensor_para_size
              /\ Len(P) = cfg.pipeline_para_size
              /\ Cardinality(Members(P)) = cfg.pipeline_para_size
              /\ pr.tensor_para_nccl_comm.state # "none" =>
                    /\ pr.tensor_para_nccl_comm.rank = pr.rank_tensor_parallel
                    /\ pr.tensor_para_nccl_comm.nranks = Len(T)
                    /\ (pr.tensor_para_nccl_comm.rank = 0)
                          <=> (pr.made_tensor_uid # NoUid)
                    /\ (pr.tensor_para_nccl_comm.rank = 0)
                          <=> (BcastRoot(T) = p)
              /\ pr.pipeline_para_nccl_comm.state # "none" =>
                    /\ pr.pipeline_para_nccl_comm.rank
                          = pr.rank_pipeline_parallel
                    /\ pr.pipeline_para_nccl_comm.nranks = Len(P)
                    /\ (pr.pipeline_para_nccl_comm.rank = 0)
                          <=> (pr.made_pipeline_uid # NoUid)
                    /\ (pr.pipeline_para_nccl_comm.rank = 0)
                          <=> (BcastRoot(P) = p)
              /\ (\A q \in Members(T) :
                      proc[q].tensor_para_nccl_comm.state # "none") =>
                    JoinRanks(T, "tensor_para_nccl_comm")
                      = 0..(cfg.tensor_para_size - 1)
              /\ (\A q \in Members(P) :
                      proc[q].pipeline_para_nccl_comm.state # "none") =>
                    JoinRanks(P, "pipeline_para_nccl_comm")
                      = 0..(cfg.pipeline_para_size - 1)

\* the grid of 2 rows of 3 with every process joined to its row and its
\* column: rank 4 is rank 1 of both, rank 3 created the identifier of the
\* row and rank 1 that of the column
C18_Witness ==
    /\ cfg.tensor_para_size = 3 /\ cfg.pipeline_para_size = 2
    /\ \A p \in Procs :
          /\ proc[p].tensor_para_nccl_comm.state = "ready"
          /\ proc[p].pipeline_para_nccl_comm.state = "ready"
    /\ proc[4].tensor_para_nccl_comm.rank = 1
    /\ proc[4].pipeline_para_nccl_comm.rank = 1
    /\ proc[4].tensor_para_nccl_comm.uid = proc[3].made_tensor_uid
    /\ proc[4].pipeline_para_nccl_comm.uid = proc[1].made_pipeline_uid

\* rank 0 has taken its start timestamp and not yet its end timestamp
InTimedInterval == proc[0].start_time /\ ~proc[0].end_time

\* process pr is inside its warmup call (the call or the device work it
\* started) or inside the block that writes the result file
InWarmupOrWriting(pr) ==
    \/ pr.pc \in {"warmup", "collect"}
    \/ Len(pr.fwd) = 1 /\ pr.devBusy
    \/ Len(pr.fwd) = 0

\* the measured call of pr and the device work it started have finished
MeasuredComplete(pr) ==
    Len(pr.fwd) = 2 /\ ~pr.devBusy /\ After(pr, "sync4")

\* C20 as stated: between the start and end timestamps of rank 0 no process
\* is in its warmup call or writing the result file; a process begins its
\* measured call only once rank 0 has taken its start timestamp; when rank
\* 0 takes its end timestamp every measured call has completed.
C20_IntervalCoversMeasured ==
    /\ InTimedInterval => \A q \in Procs : ~InWarmupOrWriting(proc[q])
    /\ \A q \in Procs : Len(proc[q].fwd) = 2 => proc[0].start_time
    /\ proc[0].end_time => \A q \in Procs : MeasuredComplete(proc[q])

\* C20 as amended: between the start and end timestamps of rank 0 no
\* process is in its warmup call or writing the result file; a process
\* begins its measured call only once every process, rank 0 included, has
\* finished its warmup call and the result file and entered the barrier
\* that precedes the start timestamp (rank 0 may not have taken the
\* timestamp yet); when rank 0 takes its end timestamp every measured call
\* has completed.
C20_IntervalExcludesWarmup ==
    /\ InTimedInterval => \A q \in Procs : ~InWarmupOrWriting(proc[q])
    /\ \A q \in Procs :
          Len(proc[q].fwd) = 2 =>
              \A r \in Procs :
                  /\ ~InWarmupOrWriting(proc[r])
                  /\ proc[r].barriers >= 3
                  /\ After(proc[r], "pre_timed")
    /\ proc[0].end_time => \A q \in Procs : MeasuredComplete(proc[q])

\* rank 1 has begun its measured call while rank 0, back from writing the
\* result file, is still in the barrier and has no start timestamp
C20_Witness ==
    /\ cfg.world_size >= 2
    /\ Len(proc[1].fwd) = 2
    /\ proc[0].pc = "bar3" /\ ~proc[0].start_time
    /\ proc[0].outFile = "written"

====
